---- MODULE Spec2Model ----
(***************************************************************************)
(* Polymer-Postmortem: the result-aggregation engine (json_utils.py,       *)
(* core/data_processor.py) and the operations of the two front ends        *)
(* (gui_core.py for Tkinter, gui/main_window.py for PyQt5) that read and   *)
(* write the JSON files under the output directory.                        *)
(*                                                                         *)
(* A JSON object is a function whose DOMAIN is its key set.  A file that   *)
(* does not exist and a file holding {} are both the empty function: every *)
(* reader in the code treats them alike (load_master returns {} for a      *)
(* missing master, the batch threads start from data = {}, os.walk finds   *)
(* no items to copy).                                                      *)
(***************************************************************************)
EXTENDS Integers, Sequences, FiniteSets, TLC

VARIABLES
    variant,     \* "tk": gui_core.py / json_utils.py, "qt": main_window.py / data_processor.py
    fileKind,    \* what each specimen file holds, as far as the algorithms care
    master,      \* content of output/gui_master.json
    stores,      \* content of output/<name> for the three per-metric stores
    nested,      \* per-metric store files in sub-directories, in os.walk order
    sidecars,    \* content of "Clean Files/specimenSpecs/<stem>.json"
    batch_stop,  \* self.batch_stop
    workers,     \* the batch worker threads started so far
    pendingClear,\* clear() callbacks scheduled by _batch_end and not yet run
    uiOps,       \* number of save / flag / reset handlers run so far
    prevMaster,  \* history: the master when the last merge or reset began
    prevStores,  \* history: the stores when the last reset began
    prevSidecars,\* history: the sidecars when the last reset began
    lastOp,      \* history: the last operation
    lastFile,    \* history: the file the last handler acted on
    merges,      \* history: merges run since the inputs last changed
    now,         \* the clock that stamps a file when it is written
    mtime,       \* os.path.getmtime of gui_master.json
    _master_mtime, \* self._master_mtime, the time the watcher recorded last
    tree,        \* the file list as _refresh_tree last built it from the master
    unseen,      \* history: the master was written since the tree was built
    df,          \* the table pd.read_csv returned for the file under analysis
    out,         \* the function of data_helpers called last, and what it returned
    win          \* the modulus or yield window that is open, or was open last

diskVars == <<master, stores, nested, sidecars>>
guiVars  == <<variant, fileKind, batch_stop, workers, pendingClear, uiOps>>
histVars == <<prevMaster, prevStores, prevSidecars, lastOp, lastFile, merges>>
watchVars == <<now, mtime, _master_mtime, tree, unseen>>
dataVars == <<df, out, win>>
vars == <<diskVars, guiVars, histVars, watchVars, dataVars>>

---------------------------------------------------------------------------
(* Dictionaries *)

EmptyMap == [x \in {} |-> 0]

Maps(K, V) == UNION {[D -> V] : D \in SUBSET K}

\* d[k] = v
Put(d, k, v) == [x \in (DOMAIN d) \cup {k} |-> IF x = k THEN v ELSE d[x]]

\* d.pop(k, None)
Pop(d, k) == [x \in (DOMAIN d) \ {k} |-> d[x]]

\* d.get(k, {})
GetOrEmpty(d, k) == IF k \in DOMAIN d THEN d[k] ELSE EmptyMap

\* a.update(b)
Update(a, b) == [x \in (DOMAIN a) \cup (DOMAIN b) |-> IF x \in DOMAIN b THEN b[x] ELSE a[x]]

\* fld in master.get(k, {})
Has(m, k, fld) == k \in DOMAIN m /\ fld \in DOMAIN m[k]

\* the value of a field of a master entry and whether it is there at all
FieldOf(m, k, fld) == IF Has(m, k, fld) THEN <<TRUE, m[k][fld]>> ELSE <<FALSE>>

Perms(S) == {p \in [1..Cardinality(S) -> S] : \A i, j \in 1..Cardinality(S) : p[i] = p[j] => i = j}

SeqPerms(s) == {[i \in 1..Len(s) |-> s[p[i]]] : p \in Perms(1..Len(s))}

---------------------------------------------------------------------------
(* The files of the output directory *)

\* specimen files of the working directory, by base name
Files == {"a.csv", "b.csv"}

\* self.all_files after populate_cleaned_files: sorted
all_files == <<"a.csv", "b.csv">>

\* spec sidecars, by the name without ".json"
Stems == {"a", "b"}

\* key_csv = os.path.splitext(fname)[0] + ".csv"
key_csv == [s \in Stems |-> IF s = "a" THEN "a.csv" ELSE "b.csv"]

\* os.path.splitext(fname)[0] of a specimen file: the stem of its sidecar
stem_of == [f \in Files |-> IF f = "a.csv" THEN "a" ELSE "b"]

StoreNames == {"modulus_results.json", "yield_results.json", "break_results.json"}

wanted == [n \in StoreNames |->
             IF n = "modulus_results.json" THEN "modulus"
             ELSE IF n = "yield_results.json" THEN "yield" ELSE "breakpoint"]

\* Python None / JSON null where a number is expected
None == -1

\* payloads of the three stores
ModulusPayloads == {[modulus |-> 3, length |-> None, area |-> None],
                    [modulus |-> 5, length |-> 85, area |-> 62,
                     points |-> <<<<0, 0>>, <<1, 50>>>>, plot_type |-> "Stress-Strain"]}

YieldPayloads == {[strain |-> 2, stress |-> 40]}

BreakPayloads == {<<9, 30>>}

PayloadsOf(n) == IF n = "modulus_results.json" THEN ModulusPayloads
                 ELSE IF n = "yield_results.json" THEN YieldPayloads ELSE BreakPayloads

\* what the three store files may hold
StoreStates ==
    {[n \in StoreNames |-> IF n = "modulus_results.json" THEN sm
                           ELSE IF n = "yield_results.json" THEN sy ELSE sb] :
        sm \in Maps(Files, ModulusPayloads),
        sy \in Maps(Files, YieldPayloads),
        sb \in Maps(Files, BreakPayloads)}

SpecRecords == {[width |-> 10], [width |-> 12, thickness |-> 4]}

---------------------------------------------------------------------------
(* json_utils.merge_individual_jsons *)

\* variant of MergeSidecar: the sidecar replaces specs instead of being unioned in
MergeSidecar_replace(m, stem, specs) ==
    Put(m, key_csv[stem], Put(GetOrEmpty(m, key_csv[stem]), "specs", specs))

\* master.setdefault(key_csv, {}).setdefault("specs", {}).update(specs)
MergeSidecar(m, stem, specs) ==
    LET k     == key_csv[stem]
        entry == GetOrEmpty(m, k)
    IN  Put(m, k, Put(entry, "specs", Update(GetOrEmpty(entry, "specs"), specs)))

RECURSIVE MergeSidecars(_, _, _)
MergeSidecars(m, sc, order) ==
    IF order = <<>> THEN m
    ELSE MergeSidecars(MergeSidecar(m, Head(order), sc[Head(order)]), sc, Tail(order))

\* variant of MergeStoreFile: a new key only gets its empty entry, the value
\* is set on keys the master already has
MergeStoreFile_else(m, name, d) ==
    [k \in (DOMAIN m) \cup (DOMAIN d) |->
        IF k \in DOMAIN d
        THEN (IF k \in DOMAIN m THEN Put(m[k], wanted[name], d[k]) ELSE EmptyMap)
        ELSE m[k]]

\* variant of MergeStoreFile: the entry is rebuilt from the store value alone
MergeStoreFile_rebuild(m, name, d) ==
    [k \in (DOMAIN m) \cup (DOMAIN d) |->
        IF k \in DOMAIN d THEN Put(EmptyMap, wanted[name], d[k]) ELSE m[k]]

\* variant of MergeStoreFile: the store value is merged field by field
MergeStoreFile_fields(m, name, d) ==
    [k \in (DOMAIN m) \cup (DOMAIN d) |->
        IF k \in DOMAIN d
        THEN Put(GetOrEmpty(m, k), wanted[name],
                 IF wanted[name] = "breakpoint" THEN d[k]
                 ELSE Update(GetOrEmpty(GetOrEmpty(m, k), wanted[name]), d[k]))
        ELSE m[k]]

\* for k, v in d.items(): master.setdefault(k, {}); master[k][wanted[lname]] = v
MergeStoreFile(m, name, d) ==
    [k \in (DOMAIN m) \cup (DOMAIN d) |->
        IF k \in DOMAIN d THEN Put(GetOrEmpty(m, k), wanted[name], d[k]) ELSE m[k]]

RECURSIVE MergeStoreFiles(_, _)
MergeStoreFiles(m, found) ==
    IF found = <<>> THEN m
    ELSE MergeStoreFiles(MergeStoreFile(m, Head(found).name, Head(found).data), Tail(found))

\* the files os.walk yields: the output directory itself first (top-down walk),
\* in the order rootOrder of its listing, then the sub-directories
Walk(st, rootOrder, sub) == [i \in 1..Len(rootOrder) |-> [name |-> rootOrder[i], data |-> st[rootOrder[i]]]] \o sub

merge_individual_jsons(m, sc, scOrder, found) ==
    MergeStoreFiles(MergeSidecars(m, sc, scOrder), found)

\* what one call can leave in gui_master.json, over the orders in which
\* os.listdir and os.walk may yield the files of the output directory
MergeResults(m, sc, st, sub) ==
    {merge_individual_jsons(m, sc, scOrder, Walk(st, rootOrder, sub)) :
        scOrder \in Perms(DOMAIN sc), rootOrder \in Perms(StoreNames)}

---------------------------------------------------------------------------
(* Batch worker threads *)

MaxWorkers == 2

WorkerIds == 1..MaxWorkers

IdleWorker == [kind |-> "none", pc |-> "idle", idx |-> 0, data |-> EmptyMap,
               mods |-> EmptyMap, calls |-> 0, start |-> EmptyMap, result |-> "",
               computed |-> {}, wrote |-> {}]

\* no file under analysis
NoTable ==
    /\ df = [columns |-> <<>>, data |-> <<>>]
    /\ out = [fn |-> "", val |-> 0]
    /\ win = [open |-> FALSE]

\* the watcher left out: no poll runs
NoPoll ==
    /\ now = 0
    /\ mtime = 0
    /\ _master_mtime = 0
    /\ tree = EmptyMap
    /\ unseen = FALSE

\* no window open, no batch started
NoGui ==
    /\ variant = "tk"
    /\ fileKind = [f \in Files |-> "ss"]
    /\ batch_stop = FALSE
    /\ workers = [w \in WorkerIds |-> IdleWorker]
    /\ pendingClear = 0
    /\ uiOps = 0

---------------------------------------------------------------------------
(* The algorithms, as far as the batch orchestration sees them: the outcome *)
(* is a function of the file.  "ss" holds a strain and a stress column and  *)
(* a rising curve, "flat" holds them with a constant stress, "fd" holds     *)
(* only force and displacement columns.                                     *)

FileKinds == {"ss", "flat", "fd"}

\* data_helpers.compute_auto_modulus: None without strain/stress columns,
\* round(slope / 10, 3) otherwise
compute_auto_modulus(f) ==
    IF fileKind[f] = "fd" THEN None ELSE IF fileKind[f] = "flat" THEN 0 ELSE 3

\* data_helpers.compute_yield_from_mod: (None, None) without strain/stress columns
compute_yield_from_mod(f, mod_val) ==
    IF fileKind[f] = "fd" THEN <<None, None>> ELSE <<2, 40>>

\* the maximum of the stress column, None when no header contains "stress"
compute_ultimate_stress(f) ==
    IF fileKind[f] = "fd" THEN None ELSE 50

\* a write that does not reach the disk while the loop runs
WriteOk_held(f) == FALSE

\* write_json_safe / save_master while file f is the current one: the write
\* either happens or raises inside the try and leaves the file as it is.
\* "wfail" is a file like "ss" during whose turn the write fails
WriteOk(f) == fileKind[f] # "wfail"

---------------------------------------------------------------------------
(* Handlers of the main window; each runs to completion on the UI thread *)

MaxUiOps == 2

\* history of a handler that is not a reset
Note(op, f) ==
    /\ lastOp' = op
    /\ lastFile' = f
    /\ prevMaster' = master'
    /\ prevStores' = stores'
    /\ prevSidecars' = sidecars'
    /\ merges' = 0
    /\ UNCHANGED <<watchVars, dataVars>>

\* history of a reset: the disk as the handler found it
Snapshot(op, f) ==
    /\ lastOp' = op
    /\ lastFile' = f
    /\ prevMaster' = master
    /\ prevStores' = stores
    /\ prevSidecars' = sidecars
    /\ merges' = 0
    /\ UNCHANGED <<watchVars, dataVars>>

\* the entry _save_modulus_result (Tkinter) / save_modulus_result (PyQt5) stores
ModulusEntry(data, f, p) ==
    IF variant = "tk" THEN Update(GetOrEmpty(data, f), p) ELSE p

\* read the store, set the file's key, write the store, merge
SaveResult(n, f, entry) ==
    /\ uiOps < MaxUiOps
    /\ uiOps' = uiOps + 1
    /\ stores' = [stores EXCEPT ![n] = Put(stores[n], f, entry)]
    /\ master' \in MergeResults(master, sidecars, stores', nested)
    /\ UNCHANGED <<nested, sidecars, variant, fileKind, batch_stop, workers, pendingClear>>

SaveModulus ==
    \E f \in Files, p \in ModulusPayloads :
        /\ SaveResult("modulus_results.json", f,
                      ModulusEntry(stores["modulus_results.json"], f, p))
        /\ Note("save_modulus", f)

SaveYield ==
    \E f \in Files, p \in YieldPayloads :
        /\ SaveResult("yield_results.json", f, p)
        /\ Note("save_yield", f)

SaveBreak ==
    \E f \in Files, p \in BreakPayloads :
        /\ SaveResult("break_results.json", f, p)
        /\ Note("save_break", f)

\* entry["flag"] = not current
ToggledFlag(m, f) ==
    LET entry   == GetOrEmpty(m, f)
        current == IF "flag" \in DOMAIN entry THEN entry["flag"] ELSE FALSE
    IN  Put(m, f, Put(entry, "flag", ~current))

toggle_flag_for_selected ==
    \E f \in Files :
        /\ uiOps < MaxUiOps
        /\ uiOps' = uiOps + 1
        /\ master' \in MergeResults(ToggledFlag(master, f), sidecars, stores, nested)
        /\ UNCHANGED <<stores, nested, sidecars, variant, fileKind, batch_stop, workers, pendingClear>>
        /\ Note("toggle_flag", f)

\* variant of ResetStores: the stores are emptied
ResetStores_all(st, f) == [n \in StoreNames |-> EmptyMap]

\* for nm in names: d.pop(fname, None); write_json_safe(p, d)
ResetStores(st, f) == [n \in StoreNames |-> Pop(st[n], f)]

\* reset_file (Tkinter): os.remove(spec_file); reset_file (PyQt5) leaves the sidecars
ResetSidecars(sc, f) == IF variant = "tk" THEN Pop(sc, stem_of[f]) ELSE sc

\* reset_file (Tkinter): "remove computed keys from master but keep flag if
\* present"; reset_file (PyQt5) does not write the master before the merge
ResetMaster(m, f) ==
    IF variant = "tk"
    THEN IF Has(m, f, "flag") THEN Put(m, f, [flag |-> m[f]["flag"]]) ELSE Pop(m, f)
    ELSE m

reset_file ==
    \E f \in Files :
        /\ uiOps < MaxUiOps
        /\ uiOps' = uiOps + 1
        /\ stores' = ResetStores(stores, f)
        /\ sidecars' = ResetSidecars(sidecars, f)
        /\ master' \in MergeResults(ResetMaster(master, f), sidecars', stores', nested)
        /\ UNCHANGED <<nested, variant, fileKind, batch_stop, workers, pendingClear>>
        /\ Snapshot("reset_file", f)

\* variant of reset_all_names: the master file is not removed
reset_all_names_stores == StoreNames

\* names = ["modulus_results.json", "yield_results.json", "break_results.json", "gui_master.json"]
reset_all_names == StoreNames \cup {"gui_master.json"}

reset_all_files ==
    /\ uiOps < MaxUiOps
    /\ uiOps' = uiOps + 1
    /\ stores' = [n \in StoreNames |-> IF n \in reset_all_names THEN EmptyMap ELSE stores[n]]
    /\ sidecars' = IF variant = "tk" THEN EmptyMap ELSE sidecars
    /\ LET removed == IF "gui_master.json" \in reset_all_names THEN EmptyMap ELSE master
       IN  IF variant = "tk"
           THEN master' \in MergeResults(removed, sidecars', stores', nested)
           ELSE \E m1 \in MergeResults(removed, sidecars', stores', nested) :
                    master' \in MergeResults(m1, sidecars', stores', nested)
    /\ UNCHANGED <<nested, variant, fileKind, batch_stop, workers, pendingClear>>
    /\ Snapshot("reset_all", "")

\* stop_batch
stop_batch ==
    /\ batch_stop' = TRUE
    /\ UNCHANGED <<diskVars, variant, fileKind, workers, pendingClear, uiOps>>
    /\ Note("stop_batch", "")

---------------------------------------------------------------------------
(* Batches *)


Running(w) == workers[w].pc \in {"load", "loop", "merge", "end"}

Free(w) == workers[w].kind = "none"

\* batch_auto_modulus / batch_auto_yield / batch_auto_ultimate: _batch_start,
\* then threading.Thread(...).start()
BatchStart(kind) ==
    /\ \E w \in WorkerIds :
          /\ Free(w)
          /\ \A v \in WorkerIds : v < w => ~Free(v)
          /\ workers' = [workers EXCEPT ![w] = [IdleWorker EXCEPT !.kind = kind, !.pc = "load"]]
    /\ batch_stop' = FALSE
    /\ UNCHANGED <<diskVars, variant, fileKind, pendingClear, uiOps>>
    /\ Note("batch_start", "")

batch_auto_modulus == BatchStart("modulus")

batch_auto_yield == BatchStart("yield")

batch_auto_ultimate == BatchStart("ultimate")

TargetOf(kind) == IF kind = "modulus" THEN "modulus_results.json" ELSE "yield_results.json"

\* the head of the worker: the store (the master for the ultimate batch) is
\* read once, before the loop
WLoad(w) ==
    /\ workers[w].pc = "load"
    /\ LET k == workers[w].kind
           d == IF k = "ultimate" THEN master ELSE stores[TargetOf(k)]
       IN  workers' = [workers EXCEPT ![w].data = d,
                                      ![w].start = d,
                                      ![w].mods = IF k = "yield" THEN stores["modulus_results.json"] ELSE EmptyMap,
                                      ![w].idx = 1,
                                      ![w].pc = IF Len(all_files) = 0 THEN "end" ELSE "loop"]
    /\ UNCHANGED <<diskVars, variant, fileKind, batch_stop, pendingClear, uiOps>>
    /\ Note("worker", "")

ModulusOf(entry) == IF "modulus" \in DOMAIN entry THEN entry["modulus"] ELSE None

\* if fname in data and data.get(fname, {}).get("modulus") is not None: continue
\* (PyQt5: ... and data.get(fname, {}).get("modulus"): continue)
SkipModulus(data, f) ==
    /\ f \in DOMAIN data
    /\ ModulusOf(data[f]) # None
    /\ variant = "qt" => ModulusOf(data[f]) # 0

\* mod_val of _batch_yield_thread; "if not mod_val: continue"
ModVal(mods, f) == IF f \in DOMAIN mods THEN ModulusOf(mods[f]) ELSE None

\* the worker after file i: the next file, or past the loop
After(wk, i) == [wk EXCEPT !.idx = i + 1,
                           !.pc = IF i + 1 > Len(all_files) THEN "end" ELSE "loop"]

\* after a result was written: Tkinter merges before the next file
Written(wk, i) == IF variant = "tk" THEN [wk EXCEPT !.pc = "merge"] ELSE After(wk, i)

\* the algorithm was invoked on f: counted, and f remembered
Ran(wk, f) == [wk EXCEPT !.calls = @ + 1, !.computed = @ \cup {f}]

\* the loop of _batch_modulus_thread without "if self.batch_stop: break"
WFileModulus_nobreak(w) ==
    LET wk == workers[w]
        f  == all_files[wk.idx]
        mod == compute_auto_modulus(f)
        data == Put(wk.data, f, [modulus |-> mod, length |-> None, area |-> None])
    IN  /\ wk.kind = "modulus"
        /\ IF SkipModulus(wk.data, f)
           THEN /\ workers' = [workers EXCEPT ![w] = After(wk, wk.idx)]
                /\ UNCHANGED stores
           ELSE IF mod # None
           THEN /\ workers' = [workers EXCEPT ![w] =
                                  Written(Ran([wk EXCEPT !.data = data,
                                                     !.wrote = IF WriteOk(f) THEN @ \cup {f} ELSE @], f), wk.idx)]
                /\ stores' = IF WriteOk(f) THEN [stores EXCEPT !["modulus_results.json"] = data] ELSE stores
           ELSE /\ workers' = [workers EXCEPT ![w] = After(Ran(wk, f), wk.idx)]
                /\ UNCHANGED stores
        /\ UNCHANGED master

\* one iteration of the loop of _batch_modulus_thread
WFileModulus(w) ==
    LET wk == workers[w]
        f  == all_files[wk.idx]
        mod == compute_auto_modulus(f)
        data == Put(wk.data, f, [modulus |-> mod, length |-> None, area |-> None])
    IN  /\ wk.kind = "modulus"
        /\ IF batch_stop
           THEN /\ workers' = [workers EXCEPT ![w].pc = "end"]
                /\ UNCHANGED stores
           ELSE IF SkipModulus(wk.data, f)
           THEN /\ workers' = [workers EXCEPT ![w] = After(wk, wk.idx)]
                /\ UNCHANGED stores
           ELSE IF mod # None
           THEN /\ workers' = [workers EXCEPT ![w] =
                                  Written(Ran([wk EXCEPT !.data = data,
                                                     !.wrote = IF WriteOk(f) THEN @ \cup {f} ELSE @], f), wk.idx)]
                /\ stores' = IF WriteOk(f) THEN [stores EXCEPT !["modulus_results.json"] = data] ELSE stores
           ELSE /\ workers' = [workers EXCEPT ![w] = After(Ran(wk, f), wk.idx)]
                /\ UNCHANGED stores
        /\ UNCHANGED master

\* one iteration of the loop of _batch_yield_thread
WFileYield(w) ==
    LET wk == workers[w]
        f  == all_files[wk.idx]
        mod_val == ModVal(wk.mods, f)
        y  == compute_yield_from_mod(f, mod_val)
        yld == Put(wk.data, f, [strain |-> y[1], stress |-> y[2]])
    IN  /\ wk.kind = "yield"
        /\ IF batch_stop
           THEN /\ workers' = [workers EXCEPT ![w].pc = "end"]
                /\ UNCHANGED stores
           ELSE IF f \in DOMAIN wk.data \/ mod_val = None \/ mod_val = 0
           THEN /\ workers' = [workers EXCEPT ![w] = After(wk, wk.idx)]
                /\ UNCHANGED stores
           ELSE IF y[1] # None
           THEN /\ workers' = [workers EXCEPT ![w] =
                                  Written(Ran([wk EXCEPT !.data = yld,
                                                     !.wrote = IF WriteOk(f) THEN @ \cup {f} ELSE @], f), wk.idx)]
                /\ stores' = IF WriteOk(f) THEN [stores EXCEPT !["yield_results.json"] = yld] ELSE stores
           ELSE /\ workers' = [workers EXCEPT ![w] = After(Ran(wk, f), wk.idx)]
                /\ UNCHANGED stores
        /\ UNCHANGED master

\* one iteration of the loop of the worker of batch_auto_ultimate
WFileUltimate(w) ==
    LET wk == workers[w]
        f  == all_files[wk.idx]
        u  == compute_ultimate_stress(f)
        m  == Put(wk.data, f, Put(GetOrEmpty(wk.data, f), "ultimate", u))
    IN  /\ wk.kind = "ultimate"
        /\ IF batch_stop
           THEN /\ workers' = [workers EXCEPT ![w].pc = "end"]
                /\ UNCHANGED master
           ELSE IF u # None
           THEN /\ workers' = [workers EXCEPT ![w] =
                                  Written(Ran([wk EXCEPT !.data = m,
                                                     !.wrote = IF WriteOk(f) THEN @ \cup {f} ELSE @], f), wk.idx)]
                /\ master' = IF WriteOk(f) THEN m ELSE master
           ELSE /\ workers' = [workers EXCEPT ![w] = After(Ran(wk, f), wk.idx)]
                /\ UNCHANGED master
        /\ UNCHANGED stores

WFile(w) ==
    /\ workers[w].pc = "loop"
    /\ WFileModulus(w) \/ WFileYield(w) \/ WFileUltimate(w)
    /\ UNCHANGED <<nested, sidecars, variant, fileKind, batch_stop, pendingClear, uiOps>>
    /\ Note("worker", "")

\* Tkinter only: merge_individual_jsons(self.output_dir) after each result
WMerge(w) ==
    /\ workers[w].pc = "merge"
    /\ master' \in MergeResults(master, sidecars, stores, nested)
    /\ workers' = [workers EXCEPT ![w] = After(workers[w], workers[w].idx)]
    /\ UNCHANGED <<stores, nested, sidecars, variant, fileKind, batch_stop, pendingClear, uiOps>>
    /\ Note("worker", "")

\* past the loop: PyQt5 merges; both post a callback to the UI thread
WEnd(w) ==
    /\ workers[w].pc = "end"
    /\ IF variant = "qt"
       THEN master' \in MergeResults(master, sidecars, stores, nested)
       ELSE UNCHANGED master
    /\ workers' = [workers EXCEPT ![w].pc = "posted"]
    /\ UNCHANGED <<stores, nested, sidecars, variant, fileKind, batch_stop, pendingClear, uiOps>>
    /\ Note("worker", "")

\* the posted callback, on the UI thread.  Tkinter: _batch_end reads batch_stop
\* and schedules clear(); PyQt5: "... completed." and manual_refresh()
BatchEnd(w) ==
    /\ workers[w].pc = "posted"
    /\ IF variant = "tk"
       THEN /\ workers' = [workers EXCEPT ![w].pc = "done",
                                          ![w].result = IF batch_stop THEN "stopped" ELSE "completed"]
            /\ pendingClear' = pendingClear + 1
            /\ UNCHANGED master
       ELSE /\ workers' = [workers EXCEPT ![w].pc = "done", ![w].result = "completed"]
            /\ master' \in MergeResults(master, sidecars, stores, nested)
            /\ UNCHANGED pendingClear
    /\ UNCHANGED <<stores, nested, sidecars, variant, fileKind, batch_stop, uiOps>>
    /\ Note("batch_end", "")

\* self.root.after(500, clear)
ClearStop ==
    /\ pendingClear > 0
    /\ pendingClear' = pendingClear - 1
    /\ batch_stop' = FALSE
    /\ UNCHANGED <<diskVars, variant, fileKind, workers, uiOps>>
    /\ Note("clear", "")

WorkerStep == \E w \in WorkerIds : WLoad(w) \/ WFile(w) \/ WMerge(w) \/ WEnd(w) \/ BatchEnd(w)

---------------------------------------------------------------------------
(* The main window over an output directory *)

NoBatchYet == \A w \in WorkerIds : Free(w)

\* the window after set_directory: the output directory holds the sidecars the
\* cleaning left, and the initial merge has run
Init ==
    /\ variant \in {"tk", "qt"}
    /\ fileKind = [f \in Files |-> "ss"]
    /\ stores = [n \in StoreNames |-> EmptyMap]
    /\ nested = <<>>
    /\ sidecars \in {EmptyMap, [s \in Stems |-> [width |-> 10]]}
    /\ master \in MergeResults(EmptyMap, sidecars, stores, nested)
    /\ batch_stop = FALSE
    /\ workers = [w \in WorkerIds |-> IdleWorker]
    /\ pendingClear = 0
    /\ uiOps = 0
    /\ prevMaster = master
    /\ prevStores = stores
    /\ prevSidecars = sidecars
    /\ lastOp = "init"
    /\ lastFile = ""
    /\ merges = 0
    /\ NoPoll
    /\ NoTable

\* the user saves results, flags and resets files, and starts one batch
Next ==
    \/ SaveModulus
    \/ SaveYield
    \/ SaveBreak
    \/ toggle_flag_for_selected
    \/ reset_file
    \/ reset_all_files
    \/ (NoBatchYet /\ batch_auto_modulus)
    \/ (NoBatchYet /\ batch_auto_yield)
    \/ (NoBatchYet /\ batch_auto_ultimate)
    \/ WorkerStep
    \/ ClearStop

Spec == Init /\ [][Next]_vars

\* a master entry and whether it is there at all
EntryOf(m, k) == IF k \in DOMAIN m THEN <<TRUE, m[k]>> ELSE <<FALSE>>

\* a reset of lastFile leaves the store entries and the sidecar of B alone
ResetKeepsStored(B) ==
    /\ \A n \in StoreNames : EntryOf(stores[n], B) = EntryOf(prevStores[n], B)
    /\ EntryOf(sidecars, stem_of[B]) = EntryOf(prevSidecars, stem_of[B])

C7_ResetClearsFile ==
    lastOp = "reset_file" =>
        /\ \A n \in StoreNames : lastFile \notin DOMAIN stores[n]
        /\ \A n \in StoreNames : ~Has(master, lastFile, wanted[n])

---------------------------------------------------------------------------
(* Batches started from the main window *)

\* the output directory when a batch is started: some files may already have a
\* modulus saved from the modulus window
InitBatch ==
    /\ variant \in {"tk", "qt"}
    /\ fileKind \in [Files -> FileKinds]
    /\ stores \in {st \in StoreStates :
                      /\ \A f \in DOMAIN st["modulus_results.json"] :
                            "points" \in DOMAIN st["modulus_results.json"][f]
                      /\ DOMAIN st["yield_results.json"] \subseteq {"a.csv"}
                      /\ st["break_results.json"] = EmptyMap}
    /\ nested = <<>>
    /\ sidecars = EmptyMap
    /\ master \in MergeResults(EmptyMap, sidecars, stores, nested)
    /\ batch_stop = FALSE
    /\ workers = [w \in WorkerIds |-> IdleWorker]
    /\ pendingClear = 0
    /\ uiOps = 0
    /\ prevMaster = master
    /\ prevStores = stores
    /\ prevSidecars = sidecars
    /\ lastOp = "init"
    /\ lastFile = ""
    /\ merges = 0
    /\ NoPoll
    /\ NoTable

NextBatch ==
    \/ batch_auto_modulus
    \/ batch_auto_yield
    \/ batch_auto_ultimate
    \/ stop_batch
    \/ WorkerStep
    \/ ClearStop

SpecBatch == InitBatch /\ [][NextBatch]_vars

\* C9 as claimed: no two batch workers run at the same time
C9_OneBatchAtATime == Cardinality({w \in WorkerIds : Running(w)}) <= 1

---------------------------------------------------------------------------
(* The same batch run again after it has finished, nothing else happening *)

Finished(w) == Free(w) \/ workers[w].pc = "done"

Again(kind) == \A w \in WorkerIds : Finished(w) /\ (~Free(w) => workers[w].kind = kind)

NextRerun ==
    \/ (Again("modulus") /\ batch_auto_modulus)
    \/ (Again("yield") /\ batch_auto_yield)
    \/ WorkerStep
    \/ ClearStop

SpecRerun == InitBatch /\ [][NextRerun]_vars

\* C10 as claimed: a run of the auto-modulus or auto-yield batch that follows
\* a finished run over the same files calls the algorithm on no file and
\* leaves the target store as it found it
C10_RerunIncremental ==
    \A w \in WorkerIds :
        (w > 1 /\ workers[w].pc = "done") =>
            /\ workers[w].calls = 0
            /\ stores[TargetOf(workers[w].kind)] = workers[w].start

---------------------------------------------------------------------------
(* Batches that may be stopped.  A batch is started when no worker thread   *)
(* is running; the callback it posted and the delayed clear() may still be  *)
(* pending.                                                                 *)

NoThread == \A w \in WorkerIds : ~Running(w)

NextStop ==
    \/ (NoThread /\ batch_auto_modulus)
    \/ (NoThread /\ batch_auto_yield)
    \/ (NoThread /\ batch_auto_ultimate)
    \/ stop_batch
    \/ WorkerStep
    \/ ClearStop

\* a directory no result was saved in yet
InitStop == InitBatch /\ stores = [n \in StoreNames |-> EmptyMap]

SpecStop == InitStop /\ [][NextStop]_vars

\* the loop of worker w ended by "if self.batch_stop: break", at file idx
Broke(w) ==
    /\ workers[w].pc \in {"end", "posted", "done"}
    /\ workers[w].idx <= Len(all_files)

\* what the batch of worker w writes to: its store, or the master
OnDisk(w) == IF workers[w].kind = "ultimate" THEN master ELSE stores[TargetOf(workers[w].kind)]

\* the record of file g in d, as the batch of worker w writes it
RunEntry(w, d, g) == IF workers[w].kind = "ultimate" THEN FieldOf(d, g, "ultimate") ELSE EntryOf(d, g)

\* the thread of w has just left the loop on the flag
JustBroke(w) == Broke(w) /\ workers[w].pc = "end"

\* a worker that has left the loop on the flag: no file from the in-flight one
\* on was computed; when it leaves, the in-flight file has the record it had
\* when the run began, and every result the run wrote is on disk
CancelledRun(w) ==
    LET wk == workers[w]
    IN  /\ Broke(w) =>
              \A j \in wk.idx..Len(all_files) : all_files[j] \notin wk.computed
        /\ JustBroke(w) =>
              /\ RunEntry(w, OnDisk(w), all_files[wk.idx]) = RunEntry(w, wk.start, all_files[wk.idx])
              /\ \A g \in wk.wrote : RunEntry(w, OnDisk(w), g) = RunEntry(w, wk.data, g)

\* a worker in the loop that takes a step while the flag is set leaves the loop
\* and neither computes nor writes
ChecksFlag(w) ==
    (workers[w].pc = "loop" /\ batch_stop /\ workers'[w] # workers[w]) =>
        /\ workers'[w] = [workers[w] EXCEPT !.pc = "end"]
        /\ stores' = stores
        /\ master' = master

C12_BatchTerminal ==
    \A w \in WorkerIds :
        workers[w].pc = "done" =>
            workers[w].result = IF Broke(w) THEN "stopped" ELSE "completed"

\* the record a batch of worker w writes for file f, <<FALSE>> when the
\* algorithm returns None
ResultOf(w, f) ==
    LET wk == workers[w]
        y  == compute_yield_from_mod(f, ModVal(wk.mods, f))
    IN  IF wk.kind = "modulus"
        THEN IF compute_auto_modulus(f) = None THEN <<FALSE>>
             ELSE <<TRUE, [modulus |-> compute_auto_modulus(f), length |-> None, area |-> None]>>
        ELSE IF wk.kind = "yield"
        THEN IF y[1] = None THEN <<FALSE>> ELSE <<TRUE, [strain |-> y[1], stress |-> y[2]]>>
        ELSE IF compute_ultimate_stress(f) = None THEN <<FALSE>>
             ELSE <<TRUE, compute_ultimate_stress(f)>>

\* the files the run of worker w has computed a result for so far
Succeeded(w) == {f \in workers[w].computed : ResultOf(w, f) # <<FALSE>>}

---------------------------------------------------------------------------
(* Batches over files the algorithm or the store write may fail on *)

FailKinds == FileKinds \cup {"wfail"}

InitFail ==
    /\ variant \in {"tk", "qt"}
    /\ fileKind \in [Files -> FailKinds]
    /\ stores = [n \in StoreNames |-> EmptyMap]
    /\ nested = <<>>
    /\ sidecars = EmptyMap
    /\ master \in MergeResults(EmptyMap, sidecars, stores, nested)
    /\ batch_stop = FALSE
    /\ workers = [w \in WorkerIds |-> IdleWorker]
    /\ pendingClear = 0
    /\ uiOps = 0
    /\ prevMaster = master
    /\ prevStores = stores
    /\ prevSidecars = sidecars
    /\ lastOp = "init"
    /\ lastFile = ""
    /\ merges = 0
    /\ NoPoll
    /\ NoTable

SpecFail == InitFail /\ [][NextStop]_vars

\* the loop of worker w passes over file f without calling the algorithm
Skipped(w, f) ==
    LET wk == workers[w]
    IN  IF wk.kind = "modulus" THEN SkipModulus(wk.start, f)
        ELSE IF wk.kind = "yield"
             THEN f \in DOMAIN wk.start \/ ModVal(wk.mods, f) \in {None, 0}
             ELSE FALSE

\* the thread of w has just left the loop having consumed the whole list
JustConsumed(w) == workers[w].pc = "end" /\ ~Broke(w)

\* C13 as claimed: a batch nobody cancelled takes every file of the list in
\* turn whatever failed before it, and a file whose computation or store
\* write failed has no store entry from the run
C13_FailureIsolated ==
    \A w \in WorkerIds :
        JustConsumed(w) =>
            /\ \A f \in Files : Skipped(w, f) \/ f \in workers[w].computed
            /\ \A f \in workers[w].computed \ workers[w].wrote :
                  RunEntry(w, OnDisk(w), f) = RunEntry(w, workers[w].start, f)

---------------------------------------------------------------------------
(* The master watcher: _poll_master runs on the UI thread at every polling  *)
(* interval, while worker threads save the master                           *)

MaxClock == 2

\* time passes; a file written now is stamped with the clock's reading
Tick ==
    /\ now < MaxClock
    /\ now' = now + 1
    /\ UNCHANGED <<diskVars, guiVars, histVars, mtime, _master_mtime, tree, unseen, dataVars>>

\* _worker_ultimate, the thread of action_ultimate: the ultimate stress of f
\* is put into the master, the master is saved, touched and merged
SaveUltimate ==
    \E f \in Files :
        LET u == compute_ultimate_stress(f)
            m == Put(master, f, Put(GetOrEmpty(master, f), "ultimate", u))
        IN  /\ u # None
            /\ master' \in MergeResults(m, sidecars, stores, nested)
            /\ mtime' = now
            /\ unseen' = TRUE
            /\ prevMaster' = master
            /\ lastOp' = "ultimate"
            /\ lastFile' = f
            /\ UNCHANGED <<stores, nested, sidecars, guiVars, prevStores, prevSidecars, merges,
                           now, _master_mtime, tree, dataVars>>

\* a watcher that finds no change
Changed_never(new_m) == FALSE

\* new_m != self._master_mtime
Changed(new_m) == new_m # _master_mtime

\* _poll_master
Poll ==
    /\ IF Changed(mtime)
       THEN /\ _master_mtime' = mtime
            /\ master' \in MergeResults(master, sidecars, stores, nested)
            /\ mtime' = now
            /\ tree' = master'
            /\ unseen' = FALSE
       ELSE UNCHANGED <<master, mtime, _master_mtime, tree, unseen>>
    /\ prevMaster' = master
    /\ lastOp' = "poll"
    /\ lastFile' = ""
    /\ UNCHANGED <<stores, nested, sidecars, guiVars, prevStores, prevSidecars, merges, now, dataVars>>

\* the window after set_directory: merged, populated, the watcher started
InitWatch ==
    /\ variant \in {"tk", "qt"}
    /\ fileKind \in [Files -> FileKinds]
    /\ stores \in {st \in StoreStates :
                      /\ st["yield_results.json"] = EmptyMap
                      /\ st["break_results.json"] = EmptyMap}
    /\ nested = <<>>
    /\ sidecars = EmptyMap
    /\ master \in MergeResults(EmptyMap, sidecars, stores, nested)
    /\ batch_stop = FALSE
    /\ workers = [w \in WorkerIds |-> IdleWorker]
    /\ pendingClear = 0
    /\ uiOps = 0
    /\ prevMaster = master
    /\ prevStores = stores
    /\ prevSidecars = sidecars
    /\ lastOp = "init"
    /\ lastFile = ""
    /\ merges = 0
    /\ now = 0
    /\ mtime = now
    /\ _master_mtime = mtime
    /\ tree = master
    /\ unseen = FALSE
    /\ NoTable

NextWatch == Tick \/ SaveUltimate \/ Poll

SpecWatch == InitWatch /\ [][NextWatch]_vars

\* a step of _poll_master: the only one that leaves the clock as it is and
\* is recorded as a poll
PollStep == lastOp' = "poll" /\ now' = now

\* what C15 says of one poll: a modification time that differs is recorded
\* and the tree is built again from the master, an equal one changes nothing
PollDetects ==
    PollStep =>
        IF mtime # _master_mtime
        THEN _master_mtime' = mtime /\ tree' = master'
        ELSE UNCHANGED <<master, mtime, _master_mtime, tree>>

---------------------------------------------------------------------------
(* JSON files that cannot be read *)

\* the content of a file json.load raises on
Corrupt == [k \in {"?"} |-> EmptyMap]

Readable(d) == "?" \notin DOMAIN d

\* load_master: {} when the file cannot be read
load_master(d) == IF Readable(d) THEN d ELSE EmptyMap

\* a store file as a handler or the merge reads it: "except Exception: data = {}",
\* and "except Exception: pass" around the loop over its items
ReadStore(d) == IF Readable(d) THEN d ELSE EmptyMap

\* merge_individual_jsons over files that may be unreadable
MergeRead(m, st) ==
    MergeResults(load_master(m), sidecars, [n \in StoreNames |-> ReadStore(st[n])], nested)

\* manual_refresh: merge_individual_jsons(self.output_dir)
MergeOp ==
    /\ master' \in MergeRead(master, stores)
    /\ prevMaster' = master
    /\ prevStores' = stores
    /\ lastOp' = "merge"
    /\ UNCHANGED <<stores, nested, sidecars, guiVars, prevSidecars, lastFile, merges, watchVars, dataVars>>

\* _save_modulus_result / save_modulus_result
SaveOp ==
    \E f \in Files, p \in ModulusPayloads :
        LET data == ReadStore(stores["modulus_results.json"])
        IN  /\ stores' = [stores EXCEPT !["modulus_results.json"] =
                                           Put(data, f, ModulusEntry(data, f, p))]
            /\ master' \in MergeRead(master, stores')
            /\ prevMaster' = master
            /\ prevStores' = stores
            /\ lastOp' = "save"
            /\ lastFile' = f
            /\ UNCHANGED <<nested, sidecars, guiVars, prevSidecars, merges, watchVars, dataVars>>

InitIO ==
    /\ master \in {Corrupt} \cup Maps(Files, {EmptyMap, [flag |-> TRUE, ultimate |-> 50]})
    /\ stores \in {[n \in StoreNames |-> IF n \in B THEN Corrupt ELSE st[n]] :
                      st \in {t \in StoreStates : t["break_results.json"] = EmptyMap},
                      B \in SUBSET StoreNames}
    /\ sidecars = EmptyMap
    /\ nested = <<>>
    /\ variant \in {"tk", "qt"}
    /\ fileKind = [f \in Files |-> "ss"]
    /\ batch_stop = FALSE
    /\ workers = [w \in WorkerIds |-> IdleWorker]
    /\ pendingClear = 0
    /\ uiOps = 0
    /\ prevMaster = master
    /\ prevStores = stores
    /\ prevSidecars = sidecars
    /\ lastOp = "init"
    /\ lastFile = ""
    /\ merges = 0
    /\ NoPoll
    /\ NoTable

NextIO == MergeOp \/ SaveOp

SpecIO == InitIO /\ [][NextIO]_vars

\* C16 as claimed: a merge or a save that finds the master or a store file
\* unreadable leaves the content of that file as it is
C16_UnreadableNoOp ==
    lastOp \in {"merge", "save"} =>
        /\ ~Readable(prevMaster) => master = prevMaster
        /\ \A n \in StoreNames : ~Readable(prevStores[n]) => stores[n] = prevStores[n]

---------------------------------------------------------------------------
(* Merging as a function of the files on disk *)

MaxMerges == 2

\* master entries a merge may start from
MasterEntries ==
    {EmptyMap,
     [flag |-> TRUE, ultimate |-> 50],
     [flag |-> FALSE, specs |-> [width |-> 12, thickness |-> 4],
      modulus |-> [modulus |-> 5, length |-> 85, area |-> 62,
                   points |-> <<<<0, 0>>, <<1, 50>>>>, plot_type |-> "Stress-Strain"]],
     [modulus |-> [modulus |-> 3, length |-> None, area |-> None],
      yield |-> [strain |-> 2, stress |-> 40], breakpoint |-> <<9, 30>>, ultimate |-> 50]}

InitMerge ==
    /\ master \in Maps(Files, MasterEntries)
    /\ stores \in StoreStates
    /\ sidecars \in Maps(Stems, SpecRecords)
    /\ nested = <<>>
    /\ NoGui
    /\ prevMaster = master
    /\ prevStores = stores
    /\ prevSidecars = sidecars
    /\ lastOp = "init"
    /\ lastFile = ""
    /\ merges = 0
    /\ NoPoll
    /\ NoTable

\* one call of merge_individual_jsons(output_dir): load the master, merge, save it
Merge ==
    /\ merges < MaxMerges
    /\ master' \in MergeResults(master, sidecars, stores, nested)
    /\ prevMaster' = master
    /\ lastOp' = "merge"
    /\ merges' = merges + 1
    /\ UNCHANGED <<stores, nested, sidecars, guiVars, prevStores, prevSidecars, lastFile, watchVars, dataVars>>

NextMerge == Merge

SpecMerge == InitMerge /\ [][NextMerge]_vars

\* C1: a second merge over unchanged sidecars and stores leaves the master's
\* key-value content as the first merge produced it
C1_MergeIdempotent == (lastOp = "merge" /\ merges >= 2) => master = prevMaster

C1_Witness ==
    /\ lastOp = "merge" /\ merges = 2
    /\ stores["modulus_results.json"] # EmptyMap
    /\ sidecars # EmptyMap
    /\ \E k \in DOMAIN stores["modulus_results.json"] : Has(master, k, "modulus")

\* C2: a merge leaves flag and ultimate of every file of the previous master
\* as they were, present or absent
C2_MergeKeepsFlagUltimate ==
    lastOp = "merge" =>
        \A k \in DOMAIN prevMaster : \A fld \in {"flag", "ultimate"} :
            FieldOf(master, k, fld) = FieldOf(prevMaster, k, fld)

C2_Witness ==
    /\ lastOp = "merge"
    /\ master # prevMaster
    /\ Has(prevMaster, "a.csv", "flag") /\ prevMaster["a.csv"]["flag"]
    /\ Has(prevMaster, "a.csv", "ultimate")
    /\ DOMAIN stores["modulus_results.json"] = Files
    /\ "a" \in DOMAIN sidecars

C4_SpecsAdditiveUnion ==
    lastOp = "merge" =>
        /\ \A s \in DOMAIN sidecars :
              /\ Has(master, key_csv[s], "specs")
              /\ \A q \in DOMAIN sidecars[s] :
                    /\ q \in DOMAIN master[key_csv[s]]["specs"]
                    /\ master[key_csv[s]]["specs"][q] = sidecars[s][q]
        /\ \A k \in DOMAIN prevMaster :
              "specs" \in DOMAIN prevMaster[k] =>
                  /\ Has(master, k, "specs")
                  /\ \A q \in DOMAIN prevMaster[k]["specs"] :
                        /\ q \in DOMAIN master[k]["specs"]
                        /\ (stem_of[k] \notin DOMAIN sidecars \/ q \notin DOMAIN sidecars[stem_of[k]])
                              => master[k]["specs"][q] = prevMaster[k]["specs"][q]

C4_Witness ==
    /\ lastOp = "merge" /\ merges = 1
    /\ Has(prevMaster, "a.csv", "specs")
    /\ prevMaster["a.csv"]["specs"] = [width |-> 12, thickness |-> 4]
    /\ "a" \in DOMAIN sidecars /\ sidecars["a"] = [width |-> 10]
    /\ master["a.csv"]["specs"] = [width |-> 10, thickness |-> 4]

---------------------------------------------------------------------------
(* Merging when the recursive scan finds more than the three store files *)

MaxNested == 2

\* a store file in a sub-directory of the output directory
NestedFiles ==
    UNION {{[name |-> n, data |-> d] : d \in Maps(Files, PayloadsOf(n)) \ {EmptyMap}} :
              n \in {"modulus_results.json", "yield_results.json"}}

NestedSeqs == UNION {[1..n -> NestedFiles] : n \in 0..MaxNested}

InitWalk ==
    /\ master \in Maps(Files, {[flag |-> TRUE, ultimate |-> 50]})
    /\ stores \in {st \in StoreStates :
                      /\ DOMAIN st["yield_results.json"] \subseteq {"a.csv"}
                      /\ DOMAIN st["break_results.json"] \subseteq {"b.csv"}}
    /\ sidecars \in {EmptyMap, [s \in Stems |-> IF s = "a" THEN [width |-> 10]
                                                ELSE [width |-> 12, thickness |-> 4]]}
    /\ nested \in NestedSeqs
    /\ NoGui
    /\ prevMaster = master
    /\ prevStores = stores
    /\ prevSidecars = sidecars
    /\ lastOp = "init"
    /\ lastFile = ""
    /\ merges = 0
    /\ NoPoll
    /\ NoTable

SpecWalk == InitWalk /\ [][NextMerge]_vars

\* C5: the master a merge produces is the same for every order in which the
\* sidecars and the store files found under the output directory are read
C5_MergeOrderIndependent ==
    lastOp = "merge" =>
        \A scOrder \in Perms(DOMAIN sidecars), rootOrder \in Perms(StoreNames),
           sub \in SeqPerms(nested) :
            merge_individual_jsons(prevMaster, sidecars, scOrder,
                                   Walk(stores, rootOrder, sub)) = master

---------------------------------------------------------------------------
(* data_helpers: column headers.  A header is the sequence of its           *)
(* characters.                                                              *)

\* the capital letters the headers use
Upper == <<"D", "E", "F", "R", "S", "T">>
Lower == <<"d", "e", "f", "r", "s", "t">>

\* one character of str(c).lower()
LowerChar(ch) ==
    IF \E i \in 1..Len(Upper) : Upper[i] = ch
    THEN Lower[CHOOSE i \in 1..Len(Upper) : Upper[i] = ch]
    ELSE ch

\* str(c).lower()
lower(h) == [i \in 1..Len(h) |-> LowerChar(h[i])]

\* kw in lc
Contains(lc, kw) ==
    \E i \in 1..(Len(lc) - Len(kw) + 1) : SubSeq(lc, i, i + Len(kw) - 1) = kw

kw_strain == <<"s", "t", "r", "a", "i", "n">>
kw_stress == <<"s", "t", "r", "e", "s", "s">>
kw_displacement == <<"d", "i", "s", "p", "l", "a", "c", "e", "m", "e", "n", "t">>
kw_disp == <<"d", "i", "s", "p">>
kw_force == <<"f", "o", "r", "c", "e">>

\* the roles in the order detect_columns tests them
Roles == <<"strain", "stress", "disp", "force">>

\* the test detect_columns makes for role r on the lowered header lc
Matches(lc, r) ==
    IF r = "strain" THEN Contains(lc, kw_strain)
    ELSE IF r = "stress" THEN Contains(lc, kw_stress)
    ELSE IF r = "disp" THEN Contains(lc, kw_displacement) \/ Contains(lc, kw_disp)
    ELSE Contains(lc, kw_force)

\* the headers a file may carry
Headers ==
    {<<"S", "t", "r", "a", "i", "n">>,
     <<"T", "r", "u", "e", "S", "t", "r", "a", "i", "n">>,
     <<"S", "T", "R", "E", "S", "S">>,
     <<"S", "t", "r", "e", "s", "s", "-", "S", "t", "r", "a", "i", "n">>,
     <<"D", "i", "s", "p">>,
     <<"F", "o", "r", "c", "e">>,
     <<"T", "i", "m", "e">>}

\* names = {"strain": None, "stress": None, "disp": None, "force": None};
\* a role maps to the position of its column, 0 for None
NoNames == [r \in {"strain", "stress", "disp", "force"} |-> 0]

\* the body of the loop over df.columns, with first-match-wins instead
DetectOne_first(names, cols, i) ==
    [r \in DOMAIN names |-> IF Matches(lower(cols[i]), r) /\ names[r] = 0 THEN i ELSE names[r]]

\* the body of the loop over df.columns: four independent "if"
DetectOne(names, cols, i) ==
    [r \in DOMAIN names |-> IF Matches(lower(cols[i]), r) THEN i ELSE names[r]]

RECURSIVE DetectFrom(_, _, _)
DetectFrom(names, cols, i) ==
    IF i > Len(cols) THEN names ELSE DetectFrom(DetectOne(names, cols, i), cols, i + 1)

detect_columns(cols) == DetectFrom(NoNames, cols, 1)

---------------------------------------------------------------------------
(* data_helpers: tables.  A cell v stands for the number v / 100, so that   *)
(* round(., 3) and round(., 6) return it as it is; Text is a cell that      *)
(* holds text, NaN an empty cell, which pd.read_csv reads as nan.  Both are *)
(* above every number, so that a comparison x <= c is false of nan and      *)
(* np.argmax, which takes the first nan for the maximum, is the first index *)
(* of the largest cell.                                                     *)

Text == 999999
NaN == 999998

MaxCols == 2

\* the columns of the files, four, six and fifty-one rows long
Series4 == {<<0, 1, 2, 3>>, <<10, 20, 15, 5>>, <<720, 900, 800, 900>>, <<1, Text, 2, 3>>}
Series6 == {<<0, 1, 2, 3, 4, 5>>, <<0, 0, 1, 1, 2, 2>>, <<0, 1, NaN, 3, 4, 5>>,
            <<NaN, 1, 2, 3, 4, 5>>}
Series51 == {[k \in 1..51 |-> k + 2], [k \in 1..51 |-> IF k = 51 THEN 0 ELSE 2 * (k + 2)]}

\* lists of n distinct headers
ColumnLists(n) == {c \in [1..n -> Headers] : \A i, j \in 1..n : c[i] = c[j] => i = j}

\* pd.read_csv(filepath)
Tables ==
    UNION {{[columns |-> c, data |-> d] : c \in ColumnLists(n), d \in [1..n -> S]} :
              n \in 1..MaxCols, S \in {Series4, Series6, Series51}}

\* what a call returns: a value, or an exception
Value(v) == [raised |-> FALSE, val |-> v]
Null == Value(<<>>)
Raise == [raised |-> TRUE, val |-> <<>>]

\* "try: ... except Exception: return None" with the exception let through
Try_propagate(body) == body

\* try: ... except Exception: return None
Try(body) == IF body.raised THEN Null ELSE body

\* df[c].astype(float) raises on a cell that holds text
Numeric(x) == \A k \in 1..Len(x) : x[k] # Text

RECURSIVE Sum(_, _)
Sum(f, S) == IF S = {} THEN 0 ELSE LET k == CHOOSE k \in S : TRUE IN f[k] + Sum(f, S \ {k})

\* round(num / den) for den > 0, halves to the even neighbour
Round(num, den) ==
    LET q == (2 * num + den) \div (2 * den)
    IN  IF (2 * num + den) % (2 * den) = 0 /\ q % 2 = 1 THEN q - 1 ELSE q

\* np.argmax(x): the first index of the maximum, taken from the last instead
ArgMax_last(x) == CHOOSE i \in 1..Len(x) :
                      /\ \A k \in 1..Len(x) : x[k] <= x[i]
                      /\ \A k \in (i + 1)..Len(x) : x[k] < x[i]

\* np.argmax(x): the first index of the maximum
ArgMax(x) == CHOOSE i \in 1..Len(x) :
                 /\ \A k \in 1..Len(x) : x[k] <= x[i]
                 /\ \A k \in 1..(i - 1) : x[k] < x[i]

\* np.argmin(dist_list) over the rows in S: the first index of the minimum,
\* taken from the last instead
ArgMin_last(dist, S) == CHOOSE i \in S :
                            /\ \A k \in S : dist[i] <= dist[k]
                            /\ \A k \in S : k > i => dist[i] < dist[k]

\* np.argmin(dist_list) over the rows in S: the first index of the minimum;
\* a distance that is nan, -1 here, is taken for the minimum
ArgMin(dist, S) == CHOOSE i \in S :
                       /\ \A k \in S : dist[i] <= dist[k]
                       /\ \A k \in S : k < i => dist[i] < dist[k]

Abs(v) == IF v < 0 THEN 0 - v ELSE v

\* the rows of the fit, with every row of strain <= 0.02 whatever their number
Region_mask(x) == {k \in 1..Len(x) : x[k] <= 2}

\* the rows of the fit: mask = x <= 0.02 if mask.sum() >= 5, else the first
\* min(50, len(x))
Region(x) ==
    LET mask == {k \in 1..Len(x) : x[k] <= 2}
    IN  IF Cardinality(mask) >= 5 THEN mask
        ELSE 1..(IF Len(x) < 50 THEN Len(x) ELSE 50)

\* ok = ~np.isnan(xi) & ~np.isnan(yi)
Ok(x, y, k) == x[k] # NaN /\ y[k] # NaN

\* the one member of a singleton; its members are computed once
The(S) == CHOOSE r \in S : TRUE

\* round(np.polyfit(xi, yi, 1)[0] / 10.0, 3) over the n rows of sel, in
\* thousandths of a GPa, from the sums of x, y, x * y and x * x
Slope(n, Sx, Sy, Sxy, Sxx) == Round(100 * (n * Sxy - Sx * Sy), n * Sxx - Sx * Sx)

\* compute_auto_modulus from "if len(x) < 5" on, sel the rows left by the mask
\* and by ok
FitBody(x, y, sel) ==
    IF Len(x) < 5 THEN Null
    ELSE IF Cardinality(sel) < 5 THEN Null
    ELSE Value(<<The({Slope(Cardinality(sel), Sx, Sy, Sxy, Sxx) :
                         Sx \in {Sum(x, sel)}, Sy \in {Sum(y, sel)},
                         Sxy \in {Sum([k \in sel |-> x[k] * y[k]], sel)},
                         Sxx \in {Sum([k \in sel |-> x[k] * x[k]], sel)}})>>)

\* compute_auto_modulus inside its try; the result is in thousandths of a GPa
ModulusBody(d) ==
    LET names == detect_columns(d.columns)
    IN  IF names["strain"] = 0 \/ names["stress"] = 0 THEN Null
        ELSE The({IF ~Numeric(x) \/ ~Numeric(y) THEN Raise
                  ELSE The({FitBody(x, y, sel) : sel \in {{k \in Region(x) : Ok(x, y, k)}}}) :
                     x \in {d.data[names["strain"]]}, y \in {d.data[names["stress"]]}})

compute_auto_modulus_of(d) == Try(ModulusBody(d))

\* the moduli a caller passes, in thousandths of a GPa; Text is a string
\* float() raises on
ModVals == {3000, 250, 10, Text}

\* abs(mod * (x - offset_pct) - y) / denom of row k, times 10000 * denom;
\* -1 for the nan of a row whose stress is nan
Dist(X, Y, mod_val, k) ==
    IF Y[k] = NaN THEN 0 - 1 ELSE Abs(mod_val * (X[k] - 20) - 100 * Y[k])

\* compute_yield_from_mod from "valid_idxs = np.where(X <= Xlin[-1])" on
NearestBody(X, Y, mod_val) ==
    The({IF valid_idxs = {} THEN Null
         ELSE The({Value(<<X[idx_min], Y[idx_min]>>) :
                      idx_min \in {The({ArgMin(dist, valid_idxs) :
                          dist \in {[k \in valid_idxs |-> Dist(X, Y, mod_val, k)]}})}}) :
            valid_idxs \in {{k \in 1..Len(X) : X[k] <= 719}}})

\* compute_yield_from_mod inside its try
YieldBody(d, mod_val) ==
    LET names == detect_columns(d.columns)
    IN  IF names["strain"] = 0 \/ names["stress"] = 0 THEN Null
        ELSE The({IF ~Numeric(X) \/ ~Numeric(Y) THEN Raise
                  ELSE IF mod_val = Text THEN Raise
                  ELSE NearestBody(X, Y, mod_val) :
                     X \in {d.data[names["strain"]]}, Y \in {d.data[names["stress"]]}})

compute_yield_from_mod_of(d, mod_val) == Try(YieldBody(d, mod_val))

\* df.select_dtypes(include=[np.number]).columns.tolist(), as positions
NumericColumns(d) == {i \in 1..Len(d.columns) : Numeric(d.data[i])}

\* the k-th smallest member of a set of positions
RECURSIVE Nth(_, _)
Nth(S, k) ==
    LET m == CHOOSE i \in S : \A j \in S : i <= j
    IN  IF k = 1 THEN m ELSE Nth(S \ {m}, k - 1)

\* (round(float(x[idx]), 6), round(float(y[idx]), 3)) for idx = np.argmax(x)
AtMax(x, y) == The({Value(<<x[idx], y[idx]>>) : idx \in {ArgMax(x)}})

\* compute_breakpoint_auto inside its try
BreakBody(d) ==
    LET names == detect_columns(d.columns)
        nums == NumericColumns(d)
    IN  IF names["strain"] # 0 /\ names["stress"] # 0
        THEN IF ~Numeric(d.data[names["strain"]]) \/ ~Numeric(d.data[names["stress"]])
             THEN Raise
             ELSE AtMax(d.data[names["strain"]], d.data[names["stress"]])
        ELSE IF Cardinality(nums) >= 2
             THEN AtMax(d.data[Nth(nums, 1)], d.data[Nth(nums, 2)])
             ELSE Null

compute_breakpoint_auto(d) == Try(BreakBody(d))

\* float(df[c].astype(float).max()): the largest cell that is not nan, nan
\* when there is none
Max(y) ==
    LET vals == {y[k] : k \in 1..Len(y)} \ {NaN}
    IN  IF vals = {} THEN NaN ELSE CHOOSE v \in vals : \A u \in vals : u <= v

\* DataProcessor.compute_ultimate_stress inside its try
UltimateBody(d) ==
    LET names == detect_columns(d.columns)
        any == {i \in 1..Len(d.columns) : Contains(lower(d.columns[i]), kw_stress)}
    IN  IF names["stress"] # 0
        THEN IF Numeric(d.data[names["stress"]])
             THEN Value(<<Max(d.data[names["stress"]])>>) ELSE Raise
        ELSE IF any # {}
             THEN IF Numeric(d.data[Nth(any, 1)])
                  THEN Value(<<Max(d.data[Nth(any, 1)])>>) ELSE Raise
             ELSE Null

compute_ultimate_stress_of(d) == Try(UltimateBody(d))

\* a call of one of the functions on the table, nothing else changing
Call(fn, arg, res) ==
    /\ out' = [fn |-> fn, arg |-> arg, raised |-> res.raised, val |-> res.val]
    /\ UNCHANGED <<df, win, diskVars, guiVars, histVars, watchVars>>

DetectColumns == Call("detect_columns", 0, Value(detect_columns(df.columns)))

ComputeModulus == Call("compute_auto_modulus", 0, compute_auto_modulus_of(df))

ComputeYield ==
    \E mod_val \in ModVals :
        Call("compute_yield_from_mod", mod_val, compute_yield_from_mod_of(df, mod_val))

ComputeBreak == Call("compute_breakpoint_auto", 0, compute_breakpoint_auto(df))

ComputeUltimate == Call("compute_ultimate_stress", 0, compute_ultimate_stress_of(df))

InitData ==
    /\ df \in Tables
    /\ out = [fn |-> "", arg |-> 0, raised |-> FALSE, val |-> <<>>]
    /\ win = [open |-> FALSE]
    /\ master = EmptyMap
    /\ stores = [n \in StoreNames |-> EmptyMap]
    /\ sidecars = EmptyMap
    /\ nested = <<>>
    /\ NoGui
    /\ prevMaster = master
    /\ prevStores = stores
    /\ prevSidecars = sidecars
    /\ lastOp = "init"
    /\ lastFile = ""
    /\ merges = 0
    /\ NoPoll

NextData == DetectColumns \/ ComputeModulus \/ ComputeYield \/ ComputeBreak \/ ComputeUltimate

SpecData == InitData /\ [][NextData]_vars

---------------------------------------------------------------------------
(* Claims about detect_columns, over SpecData                               *)

\* the positions of the columns whose header matches role r
Matching(cols, r) == {i \in 1..Len(cols) : Matches(lower(cols[i]), r)}

\* the last position in a non-empty set of positions
Last(S) == CHOOSE i \in S : \A j \in S : j <= i

Detected == out.fn = "detect_columns"

\* C18: detect_columns returns, for a given list of columns, always the
\* mapping in which every role is the last column whose header matches it
\* and a role no header matches is unset; it never raises.
C18_LastMatchWins ==
    Detected =>
        /\ ~out.raised
        /\ \A r \in DOMAIN NoNames :
               out.val[r] = IF Matching(df.columns, r) = {} THEN 0
                            ELSE Last(Matching(df.columns, r))

\* two columns match "strain", the later one was taken, and "force" is unset
C18_Witness ==
    /\ Detected
    /\ Matching(df.columns, "strain") = {1, 2}
    /\ out.val["strain"] = 2
    /\ out.val["force"] = 0

\* C19: no column is assigned to more than one role; a header that matches
\* several keywords goes to the first of strain, stress, displacement, force
\* that it matches.
C19_OneRolePerColumn ==
    Detected =>
        \A i \in 1..Len(df.columns) :
            \A r1, r2 \in DOMAIN NoNames :
                out.val[r1] = i /\ out.val[r2] = i => r1 = r2

---------------------------------------------------------------------------
(* Claims about the computations, over SpecData                             *)

\* the roles of the table's columns
Names == detect_columns(df.columns)

\* strain and stress are both mapped
Resolved == Names["strain"] # 0 /\ Names["stress"] # 0

\* the columns a function reads once strain and stress are mapped
Strain == df.data[Names["strain"]]
Stress == df.data[Names["stress"]]

\* a mapped strain or stress column holds text
TextInCurve == Resolved /\ (~Numeric(Strain) \/ ~Numeric(Stress))

IsNull == ~out.raised /\ out.val = <<>>

\* the case in which a function has nothing to compute from
DomainFailure ==
    \/ /\ out.fn \in {"compute_auto_modulus", "compute_yield_from_mod"}
       /\ ~Resolved \/ TextInCurve
    \/ /\ out.fn = "compute_auto_modulus"
       /\ Resolved
       /\ Len(Strain) < 5
    \/ /\ out.fn = "compute_yield_from_mod"
       /\ out.arg = Text
    \/ /\ out.fn = "compute_breakpoint_auto"
       /\ \/ TextInCurve
          \/ ~Resolved /\ Cardinality(NumericColumns(df)) < 2
    \/ /\ out.fn = "compute_ultimate_stress"
       /\ \/ Names["stress"] = 0
          \/ ~Numeric(df.data[Names["stress"]])

\* C17: none of compute_auto_modulus, compute_yield_from_mod,
\* compute_breakpoint_auto and compute_ultimate_stress raises, and each returns
\* a null result when a role it requires is unmapped, when the modulus has
\* fewer than 5 rows to fit, or when the data it reads is not numeric.
C17_NeverRaises ==
    /\ ~out.raised
    /\ DomainFailure => IsNull

\* the modulus of a table whose mapped stress column holds text was asked
\* for, and the answer was null
C17_Witness ==
    /\ out.fn = "compute_auto_modulus"
    /\ Resolved
    /\ Numeric(Strain)
    /\ ~Numeric(Stress)
    /\ IsNull

\* the two columns the breakpoint is read from, when there are any
BreakX == IF Resolved THEN Strain ELSE df.data[Nth(NumericColumns(df), 1)]
BreakY == IF Resolved THEN Stress ELSE df.data[Nth(NumericColumns(df), 2)]

C22_ModulusRegion ==
    /\ out.fn = "compute_auto_modulus"
    /\ Resolved
    /\ ~TextInCurve
    => \E x \in {Strain}, y \in {Stress} :
           \E low \in {{k \in 1..Len(x) : x[k] <= 2}} :
               \E kept \in {{k \in 1..Len(x) :
                                /\ IF Cardinality(low) >= 5 THEN k \in low ELSE k <= 50
                                /\ x[k] # NaN
                                /\ y[k] # NaN}} :
                   IF Cardinality(kept) < 5 THEN IsNull
                   ELSE /\ ~out.raised
                        /\ out.val = <<Slope(Cardinality(kept), Sum(x, kept), Sum(y, kept),
                                             Sum([k \in kept |-> x[k] * y[k]], kept),
                                             Sum([k \in kept |-> x[k] * x[k]], kept))>>

\* of 51 rows with no strain <= 0.02 the first 50, which lie on a line of
\* slope 2, were fitted, and the 51st, which lies off it, was not
C22_Witness ==
    /\ out.fn = "compute_auto_modulus"
    /\ Resolved
    /\ Len(Strain) = 51
    /\ \A k \in 1..50 : Strain[k] > 2 /\ Stress[k] = 2 * Strain[k]
    /\ Stress[51] = 0
    /\ out.val = <<200>>

---------------------------------------------------------------------------
(* The modulus window of one file: the user clicks points of the curve,     *)
(* chooses the plot, edits the area, calculates the slope of the last two   *)
(* points and saves it.  A coordinate v of a point stands for itself, the   *)
(* modulus is in thousandths of a GPa.                                      *)

\* the file the window was opened on
WinFile == "a.csv"

\* the points of the curve a click can select; two of them share their x
CurvePoints == {<<0, 0>>, <<1, 50>>, <<1, 80>>}

PlotTypes == {"Stress-Strain", "Force-Displacement"}

\* what the area entry may hold
Areas == {0, 5}

\* len_var / length_entry, left at its default
GaugeLength == 10

\* round(num / den, 0) for den # 0
RoundDiv(num, den) == IF den < 0 THEN Round(0 - num, 0 - den) ELSE Round(num, den)

\* the window as _create_modulus_window / ModulusDialog.__init__ leaves it;
\* from is history: the points and the plot the modulus in mod was
\* calculated from
NewWindow ==
    [open |-> TRUE, sel |-> <<>>, plot |-> "Stress-Strain", area |-> 5,
     label |-> "N/A", mod |-> None, points |-> <<>>, plot_type |-> "",
     from |-> [points |-> <<>>, plot |-> ""]]

\* SELECT_X[-2], SELECT_X[-1]: of the clicks only the last two are read
LastTwo(s) == IF Len(s) > 2 THEN SubSeq(s, Len(s) - 1, Len(s)) ELSE s

\* a step of the window that leaves the disk and the main window alone
WinOp(op) ==
    /\ lastOp' = op
    /\ lastFile' = WinFile
    /\ UNCHANGED <<diskVars, guiVars, prevMaster, prevStores, prevSidecars, merges,
                   watchVars, df, out>>

\* the window is opened on the file, once
OpenWindow ==
    /\ ~win.open
    /\ lastOp = "init"
    /\ win' = NewWindow
    /\ WinOp("open")

\* onclick / on_click: the curve point nearest to the click is appended
onclick ==
    \E pt \in CurvePoints :
        /\ win.open
        /\ win' = [win EXCEPT !.sel = LastTwo(Append(@, pt))]
        /\ WinOp("click")

\* the plot radio buttons; in PyQt5 toggled is connected to draw_plot, which
\* clears the selection
choose_plot ==
    \E pl \in PlotTypes :
        /\ win.open
        /\ pl # win.plot
        /\ win' = [win EXCEPT !.plot = pl,
                              !.sel = IF variant = "qt" THEN <<>> ELSE @]
        /\ WinOp("plot")

\* the area entry is edited
edit_area ==
    \E a \in Areas :
        /\ win.open
        /\ a # win.area
        /\ win' = [win EXCEPT !.area = a]
        /\ WinOp("area")

\* MOD of calc_slope once x1 # x0: None for "invalid"
TwoPointModulus(s, pl, A) ==
    IF pl = "Stress-Strain"
    THEN RoundDiv(100 * (s[2][2] - s[1][2]), s[2][1] - s[1][1])
    ELSE IF A = 0 THEN None
         ELSE RoundDiv(100 * (s[2][2] - s[1][2]) * GaugeLength, A * (s[2][1] - s[1][1]))

\* calc_slope of gui_core.py: every None is shown as "Slope: ∞"
calc_slope_tk(MOD) ==
    win' = [win EXCEPT !.label = IF MOD # None THEN "value" ELSE "inf",
                       !.mod = MOD,
                       !.points = win.sel,
                       !.plot_type = win.plot,
                       !.from = IF MOD # None THEN [points |-> win.sel, plot |-> win.plot]
                                ELSE @]

\* calc_slope of modulus_dialog.py: returns at x1 == x0, and leaves
\* calculated_mod as it is when nothing was calculated
calc_slope_qt(MOD) ==
    win' = IF win.sel[1][1] = win.sel[2][1] THEN [win EXCEPT !.label = "inf"]
           ELSE IF MOD # None
                THEN [win EXCEPT !.label = "value", !.mod = MOD,
                                 !.from = [points |-> win.sel, plot |-> win.plot]]
                ELSE [win EXCEPT !.label = "invalid"]

calc_slope ==
    /\ win.open
    /\ Len(win.sel) >= 2
    /\ LET MOD == IF win.sel[1][1] = win.sel[2][1] THEN None
                  ELSE TwoPointModulus(win.sel, win.plot, win.area)
       IN  IF variant = "tk" THEN calc_slope_tk(MOD) ELSE calc_slope_qt(MOD)
    /\ WinOp("calc_slope")

\* the points and the plot type the save hands to _save_modulus_result /
\* save_modulus_result: in gui_core.py win._selected_points and
\* win._plot_type, in modulus_dialog.py the selection and the radio button
SavedFrom ==
    IF variant = "tk" THEN [points |-> win.points, plot |-> win.plot_type]
    ELSE [points |-> win.sel, plot |-> win.plot]

\* finish_save_only / save_and_close: refused without a modulus; in PyQt5 a
\* selection of fewer than two points raises IndexError before anything is
\* saved
save_window ==
    /\ win.open
    /\ win.mod # None
    /\ variant = "qt" => Len(win.sel) >= 2
    /\ SaveResult("modulus_results.json", WinFile,
                  ModulusEntry(stores["modulus_results.json"], WinFile,
                               [modulus |-> win.mod, length |-> GaugeLength,
                                area |-> win.area, points |-> SavedFrom.points,
                                plot_type |-> SavedFrom.plot]))
    /\ win' = [win EXCEPT !.open = FALSE]
    /\ lastOp' = "save_window"
    /\ lastFile' = WinFile
    /\ prevMaster' = master'
    /\ prevStores' = stores'
    /\ prevSidecars' = sidecars'
    /\ merges' = 0
    /\ UNCHANGED <<watchVars, df, out>>

InitWindow ==
    /\ variant \in {"tk", "qt"}
    /\ fileKind = [f \in Files |-> "ss"]
    /\ stores = [n \in StoreNames |-> EmptyMap]
    /\ nested = <<>>
    /\ sidecars = EmptyMap
    /\ master = EmptyMap
    /\ batch_stop = FALSE
    /\ workers = [w \in WorkerIds |-> IdleWorker]
    /\ pendingClear = 0
    /\ uiOps = 0
    /\ prevMaster = master
    /\ prevStores = stores
    /\ prevSidecars = sidecars
    /\ lastOp = "init"
    /\ lastFile = ""
    /\ merges = 0
    /\ NoPoll
    /\ df = [columns |-> <<>>, data |-> <<>>]
    /\ out = [fn |-> "", val |-> 0]
    /\ win = [open |-> FALSE]

NextWindow == OpenWindow \/ onclick \/ choose_plot \/ edit_area \/ calc_slope \/ save_window

SpecWindow == InitWindow /\ [][NextWindow]_vars

\* calc_slope has just run on two points
Calculated == lastOp = "calc_slope"

\* C23: when calc_slope finds x0 == x1 in the stress-strain plot the window
\* shows "infinite", when it fails on A == 0 in the force-displacement plot
\* it shows something else than "infinite", and in neither case a value.
C23_InfiniteNotInvalid ==
    Calculated =>
        /\ win.plot = "Stress-Strain" /\ win.sel[1][1] = win.sel[2][1]
               => win.label = "inf"
        /\ win.plot = "Force-Displacement" /\ win.sel[1][1] # win.sel[2][1] /\ win.area = 0
               => win.label \notin {"inf", "value"}

\* C26: the points and the plot type saved for the file are those the saved
\* modulus was calculated from.
C26_Provenance ==
    lastOp = "save_window" =>
        LET e == stores["modulus_results.json"][WinFile]
        IN  /\ e["modulus"] = win.mod
            /\ e["points"] = win.from.points
            /\ e["plot_type"] = win.from.plot

---------------------------------------------------------------------------
(* Ultimate stress: the single-file action and the batch, over a directory  *)
(* that holds saved results                                                 *)

\* a.csv may have a modulus saved from the modulus window
InitUltimate ==
    /\ InitBatch
    /\ DOMAIN stores["modulus_results.json"] \subseteq {"a.csv"}
    /\ stores["yield_results.json"] = EmptyMap
    /\ fileKind \in {[f \in Files |-> "ss"],
                     [f \in Files |-> IF f = "a.csv" THEN "ss" ELSE "fd"]}

NextUltimate ==
    \/ SaveUltimate
    \/ (NoThread /\ batch_auto_ultimate)
    \/ stop_batch
    \/ WorkerStep
    \/ ClearStop

SpecUltimate == InitUltimate /\ [][NextUltimate]_vars

\* a step that puts an ultimate stress into the master, or changes one
UltimateSet ==
    \E f \in Files :
        /\ Has(master', f, "ultimate")
        /\ FieldOf(master', f, "ultimate") # FieldOf(master, f, "ultimate")

\* the loop of an ultimate batch has just written the result of file f
BatchWrote(w, f) ==
    /\ workers'[w].kind = "ultimate"
    /\ f \in workers'[w].wrote \ workers[w].wrote

\* C24: no per-metric store ever holds an ultimate stress; a step that sets
\* one in the master leaves the three stores as they are; and the ultimate
\* stress of a file is in the master once the single-file action or the
\* batch has computed and written it.
C24_UltimateOnlyInMaster ==
    /\ [](\A n \in StoreNames : \A f \in DOMAIN stores[n] : "ultimate" \notin DOMAIN stores[n][f])
    /\ [](lastOp = "ultimate" =>
             FieldOf(master, lastFile, "ultimate") = <<TRUE, compute_ultimate_stress(lastFile)>>)
    /\ [][/\ UltimateSet => stores' = stores
          /\ \A w \in WorkerIds : \A f \in Files :
                 BatchWrote(w, f) =>
                     FieldOf(master', f, "ultimate") = <<TRUE, compute_ultimate_stress(f)>>]_vars

\* an ultimate stress is in the master next to a saved modulus, and the
\* modulus store holds the modulus alone
C24_Witness ==
    /\ lastOp = "ultimate"
    /\ Has(master, "a.csv", "ultimate")
    /\ Has(master, "a.csv", "modulus")
    /\ "a.csv" \in DOMAIN stores["modulus_results.json"]
    /\ \E w \in WorkerIds : workers[w].kind = "ultimate" /\ "a.csv" \in workers[w].wrote

---------------------------------------------------------------------------
(* The yield window of one file: the user chooses the plot, edits the area  *)
(* and presses "Compute & Save".  A cell v of the table stands for v / 100, *)
(* the stored modulus is in thousandths of a GPa.                           *)

\* the columns a file under the yield window may carry
YieldColumns ==
    {<<<<"S", "t", "r", "a", "i", "n">>, <<"S", "T", "R", "E", "S", "S">>,
       <<"D", "i", "s", "p">>, <<"F", "o", "r", "c", "e">>>>,
     <<<<"S", "t", "r", "a", "i", "n">>, <<"S", "T", "R", "E", "S", "S">>>>,
     <<<<"D", "i", "s", "p">>, <<"F", "o", "r", "c", "e">>>>}

YieldSeries == {<<0, 1, 2, 3>>, <<10, 20, 15, 5>>}

YieldTables ==
    UNION {{[columns |-> c, data |-> d] : d \in [1..Len(c) -> YieldSeries]} : c \in YieldColumns}

\* pd.read_csv(filepath).drop(0): the rows but the first
Dropped(d) == [columns |-> d.columns, data |-> [i \in DOMAIN d.data |-> Tail(d.data[i])]]

\* mod_val as both front ends read it from modulus_results.json; None when
\* the file has no entry
StoredModulus ==
    IF WinFile \in DOMAIN stores["modulus_results.json"]
    THEN stores["modulus_results.json"][WinFile]["modulus"] ELSE None

\* abs(E_kN_per_mm * x + b - y) / denom of row k, times 100000 * L0 * denom
DistFD(X, Y, mod_val, A, k) ==
    Abs(mod_val * A * (X[k] - (20 * GaugeLength) \div 100) - 1000 * GaugeLength * Y[k])

\* compute_and_save_internal_fd from the validation of L0 and A on; the
\* domain ends at Xlin[-1] = L0 - resolution + offset_disp
compute_and_save_internal_fd(d, mod_val, A) ==
    LET names == detect_columns(d.columns)
    IN  IF A = 0 THEN Null
        ELSE IF names["disp"] = 0 \/ names["force"] = 0 THEN Null
        ELSE The({IF ~Numeric(X) \/ ~Numeric(Y) THEN Null
                  ELSE The({IF valid_idxs = {} THEN Null
                            ELSE The({Value(<<(X[idx_min] * 100) \div GaugeLength,
                                              (Y[idx_min] * 1000) \div A>>) :
                                idx_min \in {The({ArgMin(dist, valid_idxs) :
                                    dist \in {[k \in valid_idxs |-> DistFD(X, Y, mod_val, A, k)]}})}}) :
                          valid_idxs \in {{k \in 1..Len(X) :
                                              X[k] <= 100 * GaugeLength + (20 * GaugeLength) \div 100 - 1}}}) :
                     X \in {d.data[names["disp"]]}, Y \in {d.data[names["force"]]}})

\* compute_and_save_internal_ss: np.argmin raises on an empty domain and the
\* routine returns False
compute_and_save_internal_ss(d, mod_val) ==
    LET names == detect_columns(d.columns)
    IN  IF names["strain"] = 0 \/ names["stress"] = 0 THEN Null
        ELSE The({IF ~Numeric(X) \/ ~Numeric(Y) THEN Null
                  ELSE NearestBody(X, Y, mod_val) :
                     X \in {d.data[names["strain"]]}, Y \in {d.data[names["stress"]]}})

\* plot_choice as _create_yield_window sets it; PyQt5 checks Stress-Strain
InitialPlot ==
    LET names == detect_columns(df.columns)
    IN  IF variant = "tk" /\ (names["strain"] = 0 \/ names["stress"] = 0)
                          /\ names["disp"] # 0 /\ names["force"] # 0
        THEN "Force-Displacement" ELSE "Stress-Strain"

\* the yield window is opened on the file, once
OpenYieldWindow ==
    /\ ~win.open
    /\ lastOp = "init"
    /\ win' = [open |-> TRUE, plot |-> InitialPlot, area |-> 5]
    /\ WinOp("open_yield")

\* the plot radio buttons of the yield window, connected to nothing
choose_yield_plot ==
    \E pl \in PlotTypes :
        /\ win.open
        /\ pl # win.plot
        /\ win' = [win EXCEPT !.plot = pl]
        /\ WinOp("yield_plot")

\* what "Compute & Save" computes: compute_and_save_only dispatches on the
\* plot; YieldDialog.compute_and_save calls compute_yield_from_mod in both
\* branches
YieldOutcome ==
    IF variant = "tk"
    THEN IF win.plot = "Force-Displacement"
         THEN compute_and_save_internal_fd(Dropped(df), StoredModulus, win.area)
         ELSE compute_and_save_internal_ss(Dropped(df), StoredModulus)
    ELSE compute_yield_from_mod_of(df, StoredModulus)

\* compute_and_save_only / YieldDialog.compute_and_save
compute_and_save ==
    /\ win.open
    /\ \E r \in {IF StoredModulus = None THEN Null ELSE YieldOutcome} :
          IF r = Null
          THEN /\ win' = win
               /\ WinOp("yield_failed")
          ELSE /\ SaveResult("yield_results.json", WinFile,
                             [strain |-> r.val[1], stress |-> r.val[2]])
               /\ win' = [win EXCEPT !.open = (variant = "tk")]
               /\ lastOp' = "save_yield_window"
               /\ lastFile' = WinFile
               /\ prevMaster' = master'
               /\ prevStores' = stores'
               /\ prevSidecars' = sidecars'
               /\ merges' = 0
               /\ UNCHANGED <<watchVars, df, out>>

\* the file has a modulus saved, or none
InitYieldWindow ==
    /\ variant \in {"tk", "qt"}
    /\ fileKind = [f \in Files |-> "ss"]
    /\ \E m \in {EmptyMap, [f \in {WinFile} |-> [modulus |-> 3000]]} :
          stores = [n \in StoreNames |-> IF n = "modulus_results.json" THEN m ELSE EmptyMap]
    /\ nested = <<>>
    /\ sidecars = EmptyMap
    /\ master = stores["modulus_results.json"]
    /\ batch_stop = FALSE
    /\ workers = [w \in WorkerIds |-> IdleWorker]
    /\ pendingClear = 0
    /\ uiOps = 0
    /\ prevMaster = master
    /\ prevStores = stores
    /\ prevSidecars = sidecars
    /\ lastOp = "init"
    /\ lastFile = ""
    /\ merges = 0
    /\ NoPoll
    /\ df \in YieldTables
    /\ out = [fn |-> "", val |-> 0]
    /\ win = [open |-> FALSE]

NextYieldWindow == OpenYieldWindow \/ choose_yield_plot \/ edit_area \/ compute_and_save

SpecYieldWindow == InitYieldWindow /\ [][NextYieldWindow]_vars

\* the rows of the columns the plot of the window stands for, as the point
\* the yield store holds for them: strain = disp * 100 / L0 and
\* stress = force * 1000 / A in Force-Displacement
PlotPoints ==
    LET names == detect_columns(df.columns)
    IN  IF win.plot = "Force-Displacement"
        THEN IF names["disp"] = 0 \/ names["force"] = 0 \/ win.area = 0 THEN {}
             ELSE {[strain |-> (df.data[names["disp"]][k] * 100) \div GaugeLength,
                    stress |-> (df.data[names["force"]][k] * 1000) \div win.area] :
                      k \in 1..Len(df.data[1])}
        ELSE IF names["strain"] = 0 \/ names["stress"] = 0 THEN {}
             ELSE {[strain |-> df.data[names["strain"]][k],
                    stress |-> df.data[names["stress"]][k]] : k \in 1..Len(df.data[1])}

\* C25: the yield window saves, under the file's key of yield_results.json,
\* a {strain, stress} point found on the columns of the plot chosen: in
\* Force-Displacement a row of the displacement and force columns converted
\* with L0 and A, in Stress-Strain a row of the strain and stress columns.
C25_YieldTwoPaths ==
    lastOp = "save_yield_window" =>
        /\ WinFile \in DOMAIN stores["yield_results.json"]
        /\ stores["yield_results.json"][WinFile] \in PlotPoints

---------------------------------------------------------------------------
(* The master watcher left alone                                            *)

\* C27: the merge the watcher runs on a change it detected does not make the
\* next poll detect a change again: a poll that detects one leaves the
\* master with the modification time it has just recorded, so that polls
\* stop merging and refreshing once nobody else writes.
C27_WatcherQuiesces ==
    [][PollStep /\ mtime # _master_mtime => mtime' = _master_mtime']_vars

---------------------------------------------------------------------------
(* The UI thread and a batch worker over the same files                     *)

\* a step of a worker thread, or of the callback it posted
WorkerWrites == lastOp' \in {"worker", "batch_end", "ultimate"}

\* C28: no step of a background worker changes the flag of a file in the
\* master, so a flag toggled while an ultimate worker runs is in the master
\* after the worker has finished.
C28_FlagNotLost ==
    [][WorkerWrites =>
          \A f \in Files : FieldOf(master', f, "flag") = FieldOf(master, f, "flag")]_vars

\* the files whose entry of store n the step changes, adds or removes
ChangedEntries(n) == {f \in Files : EntryOf(stores'[n], f) # EntryOf(stores[n], f)}

\* C29: a write to a store for one file, by a save of the UI or by a batch,
\* leaves the entry of every other file in that store as it was.
C29_StoreWriteIsolated ==
    [][lastOp' # "reset_all" =>
          \A n \in StoreNames : Cardinality(ChangedEntries(n)) <= 1]_vars

---------------------------------------------------------------------------
(* A stop request and what follows it                                       *)

\* the thread of w is before or inside its loop and the stop flag is set:
\* _batch_start cleared the flag, so stop_batch was called since w started
StopPending(w) == batch_stop /\ workers[w].pc \in {"load", "loop", "merge"}

\* C30: once stop_batch was called while a batch runs, the stop flag stays
\* set until the batch has left its loop, the batch calls the algorithm on
\* no further file, and it ends with the result "stopped", whatever the UI
\* does meanwhile.
C30_StopEffective ==
    /\ [][\A w \in WorkerIds :
             StopPending(w) =>
                 /\ workers'[w].calls = workers[w].calls
                 /\ batch_stop' \/ workers'[w].pc \notin {"load", "loop", "merge"}]_vars
    /\ [](\A w \in WorkerIds :
             workers[w].pc = "done" /\ workers[w].idx <= Len(all_files) =>
                 workers[w].result = "stopped")

====
